---- MODULE Spec2Model ----
(***************************************************************************)
(* CodeKG: reflective API extraction (API_Parser/extract_package_api.py)   *)
(* and knowledge-graph construction (JSON2KG/build_kg.py).                 *)
(*                                                                         *)
(* Python strings are tuples of one-character strings, so that split,      *)
(* startswith, replace and concatenation are computed as the code computes *)
(* them.  Python's None is the one-element tuple None, which no string of  *)
(* the program equals.                                                     *)
(***************************************************************************)
EXTENDS Integers, Sequences, FiniteSets, TLC

\* ------------------------------------------------------------------ text

None == <<"<None>">>

\* Python truthiness of an Optional[str]: neither None nor "".
Truthy(s) == s # None /\ s # <<>>

\* str.split(c) for a one-character separator c.
RECURSIVE Split(_, _)
Split(s, c) ==
    IF \A i \in 1..Len(s) : s[i] # c
    THEN <<s>>
    ELSE LET k == CHOOSE i \in 1..Len(s) : s[i] = c /\ \A j \in 1..(i - 1) : s[j] # c
         IN  <<SubSeq(s, 1, k - 1)>> \o Split(SubSeq(s, k + 1, Len(s)), c)

\* str.startswith(prefix)
StartsWith(s, prefix) ==
    Len(prefix) <= Len(s) /\ SubSeq(s, 1, Len(prefix)) = prefix

\* str.replace(a, b) for one-character a and b.
ReplaceChar(s, a, b) == [i \in 1..Len(s) |-> IF s[i] = a THEN b ELSE s[i]]

\* sub in s
Contains(s, sub) ==
    \E i \in 0..(Len(s) - Len(sub)) : SubSeq(s, i + 1, i + Len(sub)) = sub

UpperAlpha ==
    <<"A", "B", "C", "D", "E", "F", "G", "H", "I", "J", "K", "L", "M",
      "N", "O", "P", "Q", "R", "S", "T", "U", "V", "W", "X", "Y", "Z">>
LowerAlpha ==
    <<"a", "b", "c", "d", "e", "f", "g", "h", "i", "j", "k", "l", "m",
      "n", "o", "p", "q", "r", "s", "t", "u", "v", "w", "x", "y", "z">>

\* str.lower()
Lower(s) ==
    [i \in 1..Len(s) |->
        IF \E k \in 1..Len(UpperAlpha) : UpperAlpha[k] = s[i]
        THEN LowerAlpha[CHOOSE k \in 1..Len(UpperAlpha) : UpperAlpha[k] = s[i]]
        ELSE s[i]]

\* str.splitlines() on "\n"
RECURSIVE SplitLines(_)
SplitLines(s) ==
    IF s = <<>> THEN <<>>
    ELSE IF \A i \in 1..Len(s) : s[i] # "\n" THEN <<s>>
    ELSE LET k == CHOOSE i \in 1..Len(s) : s[i] = "\n" /\ \A j \in 1..(i - 1) : s[j] # "\n"
         IN  <<SubSeq(s, 1, k - 1)>> \o SplitLines(SubSeq(s, k + 1, Len(s)))

IsSpace(c) == c \in {" ", "\n", "\t"}

\* str.strip()
RECURSIVE Strip(_)
Strip(s) ==
    IF s = <<>> THEN s
    ELSE IF IsSpace(s[1]) THEN Strip(Tail(s))
    ELSE IF IsSpace(s[Len(s)]) THEN Strip(SubSeq(s, 1, Len(s) - 1))
    ELSE s

\* "\n".join(lines)
RECURSIVE JoinLines(_)
JoinLines(lines) ==
    IF lines = <<>> THEN <<>>
    ELSE IF Len(lines) = 1 THEN lines[1]
    ELSE lines[1] \o <<"\n">> \o JoinLines(Tail(lines))

\* The characters of the model in code-point order (Python compares strings
\* by code point).
CodeOrder ==
    <<"\n", " ", "#", "(", ")", "*", ",", ".", "/", "1", ":", "=">> \o UpperAlpha
        \o <<"\\", "_">> \o LowerAlpha

Code(c) == CHOOSE i \in 1..Len(CodeOrder) : CodeOrder[i] = c

\* a < b on strings
RECURSIVE LexLess(_, _)
LexLess(a, b) ==
    IF a = <<>> THEN b # <<>>
    ELSE IF b = <<>> THEN FALSE
    ELSE IF a[1] = b[1] THEN LexLess(Tail(a), Tail(b))
    ELSE Code(a[1]) < Code(b[1])

\* sorted(...) of a set of (name, value) pairs with distinct names.
\* The pair at position i is the one with i - 1 names below its own.
SortByName(S) ==
    [i \in 1..Cardinality(S) |->
        CHOOSE x \in S : Cardinality({y \in S : LexLess(y.name, x.name)}) = i - 1]

\* The elements of a sequence.
Elems(q) == {q[i] : i \in 1..Len(q)}

\* --------------------------------------------------------- string values

s_dot == "."
s_all == <<"_", "_", "a", "l", "l", "_", "_">>
s_empty_sig == <<"(", ")">>
kw_return == <<":", "r", "e", "t", "u", "r", "n">>
kw_returns == <<":", "r", "e", "t", "u", "r", "n", "s">>

n_p == <<"p">>
n_ps == <<"p", ".", "s">>
n_px == <<"p", "x">>
n_q == <<"q">>
n_s == <<"s">>
n_A == <<"A">>
n_B == <<"B">>
n_C == <<"C">>
n_f == <<"f">>
n_g == <<"g">>
n_h == <<"h">>
n_m == <<"m">>
n_A_m == <<"A", "_", "m">>
n_me == <<"m", "e">>
n_n == <<"n">>
n_cm == <<"c", "m">>
n_x == <<"x">>
n_bf == <<"b", "f">>
n_bm == <<"b", "m">>
n_ext == <<"e", "x", "t">>
n_up == <<"u", "p">>
n_v == <<"v">>
n_W == <<"W">>
n_Z == <<"Z">>
n_core == <<"c", "o", "r", "e">>
n_Widget == <<"W", "i", "d", "g", "e", "t">>
n_os_path == <<"o", "s", ".", "p", "a", "t", "h">>
n_helper == <<"h", "e", "l", "p", "e", "r">>
n_self == <<"s", "e", "l", "f">>
n_y == <<"y">>
n_star == <<"*">>
file_p == <<"p", "/", "i", ".", "p", "y">>
file_ps == <<"p", "/", "s", ".", "p", "y">>
file_px == <<"p", "x", ".", "p", "y">>
doc_plain == <<"D", "o", "c">>
doc_ret == <<"t", "\n", ":", "R", "e", "t", "u", "r", "n", " ", "v">>
sig_x == <<"(", "x", ")">>
sig_self == <<"(", "s", "e", "l", "f", ",", " ", "y", "=", "1", ")">>
src_text == <<"d", "e", "f">>

\* ------------------------------------------------------- the live package
\* The object graph that inspect shows: each object's category and the
\* outcome of each reflective call on it.  cat: "module", "class",
\* "function" (inspect.isfunction), "method" (inspect.ismethod: a bound
\* method), "builtin" (a compiled function: neither), "descriptor", "other".
\* doc is what inspect.getdoc returns, sig what str(inspect.signature(..))
\* returns and file what inspect.getfile returns; None where the call fails
\* for this object; source tells whether inspect.getsource succeeds.

NoObj == "NoObj"

P(nm, opt) == [name |-> nm, is_optional |-> opt]

O(cat, nm, mod, file, source, sig, params, doc) ==
    [cat |-> cat, name |-> nm, module |-> mod, file |-> file, source |-> source,
     sig |-> sig, params |-> params, doc |-> doc]

ObjTable ==
    [M_p  |-> O("module", n_p, None, file_p, TRUE, None, <<>>, doc_plain),
     M_ps |-> O("module", n_ps, None, file_ps, TRUE, None, <<>>, None),
     M_px |-> O("module", n_px, None, file_px, TRUE, None, <<>>, None),
     M_q  |-> O("module", n_q, None, None, FALSE, None, <<>>, None),
     K_A  |-> O("class", n_A, n_ps, file_ps, TRUE, sig_x, <<P(n_x, FALSE)>>, doc_plain),
     K_B  |-> O("class", n_B, n_p, file_p, TRUE, sig_x, <<P(n_x, FALSE)>>, None),
     K_C  |-> O("class", n_C, n_p, None, FALSE, None, <<>>, doc_plain),
     F_f  |-> O("function", n_f, n_p, file_p, TRUE, sig_x, <<P(n_x, FALSE)>>, doc_ret),
     F_g  |-> O("function", n_g, n_ps, file_ps, TRUE, sig_x, <<P(n_x, FALSE)>>, None),
     F_h  |-> O("function", n_h, n_px, file_px, TRUE, sig_x, <<P(n_x, FALSE)>>, None),
     F_m  |-> O("function", n_m, n_ps, file_ps, TRUE, sig_self,
                <<P(n_self, FALSE), P(n_y, TRUE)>>, doc_plain),
     F_n  |-> O("function", n_n, n_p, file_p, TRUE, sig_self,
                <<P(n_self, FALSE), P(n_y, TRUE)>>, None),
     B_cm |-> O("method", n_cm, n_p, file_p, TRUE, sig_x, <<P(n_x, FALSE)>>, None),
     X_bf |-> O("builtin", n_bf, n_p, None, FALSE, sig_x, <<P(n_x, FALSE)>>, doc_plain),
     X_bm |-> O("descriptor", n_bm, None, None, FALSE, sig_x, <<P(n_x, FALSE)>>, None),
     V_int |-> O("other", None, None, None, FALSE, None, <<>>, None)]

RootModule == "M_p"

Bind(mod, nm, obj) == [mod |-> mod, name |-> nm, obj |-> obj]

\* Attributes every package of the model has.
CoreBinds ==
    {Bind("M_p", n_s, "M_ps"), Bind("M_p", n_A, "K_A"), Bind("M_p", n_B, "K_B"),
     Bind("M_p", n_f, "F_f"), Bind("M_ps", n_A, "K_A"), Bind("M_ps", n_g, "F_g"),
     Bind("M_px", n_h, "F_h"),
     Bind("K_A", n_m, "F_m"), Bind("K_A", n_x, "V_int"),
     Bind("K_B", n_cm, "B_cm"), Bind("K_B", n_m, "F_m"), Bind("K_B", n_n, "F_n"),
     Bind("K_C", n_bm, "X_bm")}

\* Attributes a package may have: a compiled class, a compiled function, a
\* module of another distribution whose name starts with the same letters, an
\* unrelated module, a submodule's reference to its parent, a plain value, the
\* package's reference to itself.
OptionalBinds ==
    {Bind("M_p", n_C, "K_C"), Bind("M_p", n_bf, "X_bf"), Bind("M_p", n_ext, "M_px"),
     Bind("M_p", n_q, "M_q"), Bind("M_ps", n_up, "M_p"), Bind("M_p", n_v, "V_int"),
     Bind("M_p", n_me, "M_p")}

MaxOptional == 2

\* inspect.getmembers(o): the (name, value) pairs of o, sorted by name.
GetMembers(o, opt) ==
    SortByName({[name |-> b.name, obj |-> b.obj] : b \in {c \in CoreBinds \cup opt : c.mod = o}})

IsModule(o) == ObjTable[o].cat = "module"
IsClass(o) == ObjTable[o].cat = "class"
IsFunction(o) == ObjTable[o].cat = "function"
IsMethod(o) == ObjTable[o].cat = "method"

\* One reflective call on one object may fail in a run: flt names the object
\* and the call ("doc", "src", "sig"), or is NoFault.
NoFault == [obj |-> NoObj, call |-> "none"]
Faultable == {"M_ps", "K_A", "F_f", "F_m"}
Faults == {NoFault} \cup [obj : Faultable, call : {"doc", "src", "sig"}]

\* inspect.getdoc(obj): the text, None when there is none, or an exception
\* (getdoc itself absorbs only AttributeError raised by obj.__doc__).
InspectGetdoc(o, flt) ==
    [raised |-> (flt = [obj |-> o, call |-> "doc"]), val |-> ObjTable[o].doc]

\* inspect.getsource(obj)
InspectGetsource(o, flt) ==
    [raised |-> (~ObjTable[o].source \/ flt = [obj |-> o, call |-> "src"]),
     val |-> src_text]

\* inspect.signature(obj)
InspectSignature(o, flt) ==
    [raised |-> (ObjTable[o].sig = None \/ flt = [obj |-> o, call |-> "sig"]),
     val |-> ObjTable[o].sig, parameters |-> ObjTable[o].params]

\* ------------------------------------------------------ RecordClassifier

\* extract_doc_section(doc, keywords)
ExtractDocSection(doc, keywords) ==
    IF ~Truthy(doc) THEN None
    ELSE LET lines == SplitLines(doc)
             hit(line) == \E k \in keywords : Contains(Lower(line), k)
             kept == SelectSeq(lines, hit)
             matched == [i \in 1..Len(kept) |-> Strip(kept[i])]
         IN  IF matched # <<>> THEN JoinLines(matched) ELSE None

\* The "class" field of a record: parent_class.__name__ if parent_class else None
OwningClass(parent_class) ==
    IF parent_class # NoObj THEN ObjTable[parent_class].name ELSE None

\* The object category of build_api_item.
ObjType(o, parent_class) ==
    IF IsClass(o) THEN "class"
    ELSE IF IsFunction(o) \/ IsMethod(o)
         THEN (IF parent_class # NoObj THEN "member_function" ELSE "function")
    ELSE IF IsModule(o) THEN "module"
    ELSE "unknown"

\* build_api_item(full_id, obj, parent_class): the record, or raised when a
\* call outside the function's try blocks raises.  The fields is_deprecated
\* and raise_doc, which nothing downstream reads, are left out.
BuildApiItem(full_id, o, parent_class, flt) ==
    LET d == InspectGetdoc(o, flt)
        doc == IF Truthy(d.val) THEN d.val ELSE <<>>
        src == InspectGetsource(o, flt)
        sg == InspectSignature(o, flt)
        obj_type == ObjType(o, parent_class)
    IN  [raised |-> d.raised,
         item |->
            [_id |-> full_id,
             doc |-> doc,
             source_code |-> IF src.raised THEN None ELSE src.val,
             signature |-> IF sg.raised THEN s_empty_sig ELSE sg.val,
             parameters |-> IF obj_type \in {"function", "member_function"} /\ ~sg.raised
                            THEN sg.parameters ELSE <<>>,
             returns_doc |-> ExtractDocSection(doc, {kw_return, kw_returns}),
             type |-> obj_type,
             class |-> OwningClass(parent_class),
             from_init |-> FALSE,
             module |-> ObjTable[o].module,
             file |-> ObjTable[o].file]]

\* --------------------------------------------------------- ExportResolver
\* A top-level statement of the entry-point file as ast.parse gives it.

Alias(nm, asname) == [name |-> nm, asname |-> asname]
StrElt(s) == [kind |-> "Str", s |-> s]
Stmt(node, mod, names, targets, value, elts) ==
    [node |-> node, module |-> mod, names |-> names, targets |-> targets,
     value |-> value, elts |-> elts]
NameTarget(id) == [kind |-> "Name", id |-> id]

\* import os.path
st_import == Stmt("Import", None, <<Alias(n_os_path, None)>>, <<>>, "", <<>>)
\* from .core import Widget as W
st_from_alias == Stmt("ImportFrom", n_core, <<Alias(n_Widget, n_W)>>, <<>>, "", <<>>)
\* from p.s import A, g
st_from_plain == Stmt("ImportFrom", n_ps, <<Alias(n_A, None), Alias(n_g, None)>>, <<>>, "", <<>>)
\* from . import s
st_from_dot == Stmt("ImportFrom", None, <<Alias(n_s, None)>>, <<>>, "", <<>>)
\* __all__ = ["W", "helper"]
st_all_list == Stmt("Assign", None, <<>>, <<NameTarget(s_all)>>, "List",
                    <<StrElt(n_W), StrElt(n_helper)>>)
\* __all__ = ("f", "m", 1)
st_all_tuple == Stmt("Assign", None, <<>>, <<NameTarget(s_all)>>, "Tuple",
                     <<StrElt(n_f), StrElt(n_m), [kind |-> "Num", s |-> None]>>)
\* __all__ = base + ["x"]
st_all_computed == Stmt("Assign", None, <<>>, <<NameTarget(s_all)>>, "BinOp", <<>>)
\* x = ["B"]
st_other_assign == Stmt("Assign", None, <<>>, <<NameTarget(n_x)>>, "List", <<StrElt(n_B)>>)
\* if ...: from .s import g        (the import is nested, not top-level)
st_if == Stmt("If", None, <<>>, <<>>, "", <<>>)

\* The symbols one iteration of parse_init_file's loop adds.
StmtSymbols(node) ==
    IF node.node = "Import"
    THEN {Split(node.names[i].name, s_dot)[1] : i \in 1..Len(node.names)}
    ELSE IF node.node = "ImportFrom"
    THEN (IF Truthy(node.module) /\ Split(node.module, s_dot)[1] # <<>>
          THEN {Split(node.module, s_dot)[1]} ELSE {})
         \cup {node.names[i].name : i \in 1..Len(node.names)}
    ELSE IF node.node = "Assign"
    THEN IF /\ Len(node.targets) = 1
            /\ node.targets[1].kind = "Name"
            /\ node.targets[1].id = s_all
            /\ node.value \in {"List", "Tuple"}
         THEN {node.elts[i].s : i \in {j \in 1..Len(node.elts) : node.elts[j].kind = "Str"}}
         ELSE {}
    ELSE {}

\* parse_init_file(init_path) on a file that parses.
ParseInitFile(body) == UNION {StmtSymbols(body[i]) : i \in 1..Len(body)}

\* The live module's __all__: absent, a list/tuple/set, or something else.
NoAll == [kind |-> "absent", elts |-> <<>>]

\* exported_symbols.update(dynamic_all) under its isinstance guard
DynamicSymbols(dyn) == IF dyn.kind \in {"list", "tuple", "set"} THEN Elems(dyn.elts) ELSE {}

\* --------------------------------------------------------- ExportAnnotator

\* item["_id"].split(".")[-1]
LastSegment(id) == LET parts == Split(id, s_dot) IN parts[Len(parts)]

\* The annotation with parts[0] tested in place of parts[-1].
AnnotateItem_FirstSegment(item, exported) ==
    IF Split(item._id, s_dot)[1] \in exported
    THEN [item EXCEPT !.from_init = TRUE]
    ELSE item

\* The annotation that, marking a record, rebuilds it without its owning class.
AnnotateItem_RebuildsRecord(item, exported) ==
    IF LastSegment(item._id) \in exported
    THEN [item EXCEPT !.from_init = TRUE, !.class = None]
    ELSE item

\* One iteration of the annotation loop of main.
AnnotateItem(item, exported) ==
    IF LastSegment(item._id) \in exported
    THEN [item EXCEPT !.from_init = TRUE]
    ELSE item

\* ---------------------------------------------------------------- state

VARIABLES
    \* extract_package_api.main
    pc,                 \* where main is
    init_file,          \* the entry-point file: [valid, body]
    dynamic_all,        \* the live module's __all__
    optional,           \* which of OptionalBinds the package has
    fault,              \* the reflective call that fails in this run, if any
    symbols,            \* parse_init_file's local set
    stmt_i,             \* parse_init_file's position in tree.body
    exported_symbols,
    visited,            \* traverse_module's visited set
    stack,              \* the active traverse_module calls, innermost last
    results,            \* the records the traversal holds so far, in order
    built_from,         \* for each record of results/all_api, the object it describes
    all_api,            \* main's list, set when traverse_module returns
    item_i              \* the annotation loop's position

extractVars ==
    <<pc, init_file, dynamic_all, optional, fault, symbols, stmt_i, exported_symbols,
      visited, stack, results, built_from, all_api, item_i>>

VARIABLES
    gpc,            \* where main is
    json_data,      \* the "data" list of the input document
    ttl_out,        \* whether --ttl_out is given
    neo4j_args,     \* which of --neo4j_url, --neo4j_user, --neo4j_pass are given
    kg,             \* the rdflib graph of this run
    ttl_file,       \* the file at ttl_out: [exists, complete, run, content]
    store,          \* the Neo4j store, which outlives a run
    library_nid,    \* write_to_neo4j_py2neo's library_node
    data_i,         \* write_to_neo4j_py2neo's position in data_list
    run,            \* the number of this run of main
    first_store     \* the store as the first completed write left it

graphVars ==
    <<gpc, json_data, ttl_out, neo4j_args, kg, ttl_file, store, library_nid, data_i,
      run, first_store>>

\* ------------------------------------------------- extract_package_api.main

\* with open(...): tree = ast.parse(...): a file that does not parse raises.
OpenInit ==
    /\ pc = "parse"
    /\ pc' = IF init_file.valid THEN "parse_loop" ELSE "parse_error"
    /\ symbols' = {}
    /\ stmt_i' = 1
    /\ UNCHANGED <<init_file, dynamic_all, optional, fault, exported_symbols, visited,
                   stack, results, built_from, all_api, item_i>>
    /\ UNCHANGED graphVars

\* for node in tree.body
ParseStmt ==
    /\ pc = "parse_loop"
    /\ stmt_i <= Len(init_file.body)
    /\ symbols' = symbols \cup StmtSymbols(init_file.body[stmt_i])
    /\ stmt_i' = stmt_i + 1
    /\ UNCHANGED <<pc, init_file, dynamic_all, optional, fault, exported_symbols, visited,
                   stack, results, built_from, all_api, item_i>>
    /\ UNCHANGED graphVars

\* return symbols; exported_symbols = parse_init_file(init_file)
ParseReturn ==
    /\ pc = "parse_loop"
    /\ stmt_i > Len(init_file.body)
    /\ exported_symbols' = symbols
    /\ pc' = "import"
    /\ UNCHANGED <<init_file, dynamic_all, optional, fault, symbols, stmt_i, visited,
                   stack, results, built_from, all_api, item_i>>
    /\ UNCHANGED graphVars

\* main_module = importlib.import_module(pkg_name); merge its __all__
ImportPackage ==
    /\ pc = "import"
    /\ exported_symbols' = exported_symbols \cup DynamicSymbols(dynamic_all)
    /\ pc' = "traverse"
    /\ UNCHANGED <<init_file, dynamic_all, optional, fault, symbols, stmt_i, visited,
                   stack, results, built_from, all_api, item_i>>
    /\ UNCHANGED graphVars

\* f"{a}.{b}"
JoinId(a, b) == a \o <<".">> \o b

\* traverse_module without the return for a visited name.
EnterModule_NoVisitedCheck(o, st, flt, opt) ==
    LET mod_name == ObjTable[o].name
        r == BuildApiItem(mod_name, o, NoObj, flt)
    IN  IF r.raised
        THEN [st EXCEPT !.visited = @ \cup {mod_name}, !.raised = TRUE]
        ELSE [st EXCEPT !.visited = @ \cup {mod_name},
                        !.results = Append(@, r.item),
                        !.built = Append(@, o),
                        !.stack = Append(@, [mod |-> o, mod_name |-> mod_name,
                                             members |-> GetMembers(o, opt), i |-> 1])]

\* The traversal's data: st = [visited, results, built, stack, raised].
\* traverse_module(module, visited) up to its loop: return at once for a
\* visited name, else mark it, emit the module's record and start the loop.
EnterModule(o, st, flt, opt) ==
    LET mod_name == ObjTable[o].name
        r == BuildApiItem(mod_name, o, NoObj, flt)
    IN  IF mod_name \in st.visited THEN st
        ELSE IF r.raised
        THEN [st EXCEPT !.visited = @ \cup {mod_name}, !.raised = TRUE]
        ELSE [st EXCEPT !.visited = @ \cup {mod_name},
                        !.results = Append(@, r.item),
                        !.built = Append(@, o),
                        !.stack = Append(@, [mod |-> o, mod_name |-> mod_name,
                                             members |-> GetMembers(o, opt), i |-> 1])]

\* The guard of the recursion into a member that is a module.
Recurses(member_name, mod_name) == StartsWith(member_name, Split(mod_name, s_dot)[1])

\* The inner loop over a class's members: a member_function record for each
\* function or method, in member order; [raised, items, objs].  An exception
\* in any build_api_item leaves the loop, and its items are never used.
IsMethodMember(b) == IsFunction(b.obj) \/ IsMethod(b.obj)

MethodItems(full_id, cls, members, flt) ==
    LET fm == SelectSeq(members, IsMethodMember)
        raised == \E b \in Elems(fm) :
                      BuildApiItem(JoinId(full_id, b.name), b.obj, cls, flt).raised
    IN  IF raised THEN [raised |-> TRUE, items |-> <<>>, objs |-> <<>>]
        ELSE [raised |-> FALSE,
              items |-> [k \in 1..Len(fm) |->
                           BuildApiItem(JoinId(full_id, fm[k].name), fm[k].obj, cls, flt).item],
              objs |-> [k \in 1..Len(fm) |-> fm[k].obj]]

Top == stack[Len(stack)]
HasCur == pc = "walk" /\ stack # <<>> /\ Top.i <= Len(Top.members)
Cur == Top.members[Top.i]
FullId == JoinId(Top.mod_name, Cur.name)
Advance(stk) == [stk EXCEPT ![Len(stk)].i = @ + 1]
Here == [visited |-> visited, results |-> results, built |-> built_from,
         stack |-> Advance(stack), raised |-> FALSE]

\* The traversal's data after a step; an exception leaves traverse_module
\* and main (nothing catches it).
Commit(st) ==
    \E s \in {st} :
    /\ visited' = s.visited
    /\ results' = s.results
    /\ built_from' = s.built
    /\ stack' = s.stack
    /\ pc' = IF s.raised THEN "raised" ELSE "walk"
    /\ UNCHANGED <<init_file, dynamic_all, optional, fault, symbols, stmt_i,
                   exported_symbols, all_api, item_i>>
    /\ UNCHANGED graphVars

\* all_api = traverse_module(main_module): the outermost call
TraverseRoot ==
    /\ pc = "traverse"
    /\ Commit(EnterModule(RootModule,
                          [visited |-> {}, results |-> <<>>, built |-> <<>>,
                           stack |-> <<>>, raised |-> FALSE], fault, optional))

\* a member that is a module
VisitSubmodule ==
    /\ HasCur
    /\ IsModule(Cur.obj)
    /\ Commit(IF Recurses(ObjTable[Cur.obj].name, Top.mod_name)
              THEN EnterModule(Cur.obj, Here, fault, optional)
              ELSE Here)

\* a member that is a class: its record, then its methods' records
VisitClass ==
    /\ HasCur
    /\ ~IsModule(Cur.obj)
    /\ IsClass(Cur.obj)
    /\ \E full_id \in {FullId}, members \in {GetMembers(Cur.obj, optional)} :
       \E c \in {BuildApiItem(full_id, Cur.obj, NoObj, fault)},
          ms \in {MethodItems(full_id, Cur.obj, members, fault)} :
           Commit([Here EXCEPT !.raised = c.raised \/ ms.raised,
                               !.results = IF c.raised \/ ms.raised THEN @
                                           ELSE @ \o <<c.item>> \o ms.items,
                               !.built = IF c.raised \/ ms.raised THEN @
                                         ELSE @ \o <<Cur.obj>> \o ms.objs])

\* a member that is a function
VisitFunction ==
    /\ HasCur
    /\ ~IsModule(Cur.obj)
    /\ ~IsClass(Cur.obj)
    /\ IsFunction(Cur.obj)
    /\ \E r \in {BuildApiItem(FullId, Cur.obj, NoObj, fault)} :
           Commit([Here EXCEPT !.raised = r.raised,
                               !.results = IF r.raised THEN @ ELSE Append(@, r.item),
                               !.built = IF r.raised THEN @ ELSE Append(@, Cur.obj)])

\* any other member: no branch of the loop takes it
SkipMember ==
    /\ HasCur
    /\ ~IsModule(Cur.obj)
    /\ ~IsClass(Cur.obj)
    /\ ~IsFunction(Cur.obj)
    /\ Commit(Here)

\* return results; the outermost return assigns main's all_api
ReturnFromModule ==
    /\ pc = "walk"
    /\ stack # <<>>
    /\ Top.i > Len(Top.members)
    /\ stack' = SubSeq(stack, 1, Len(stack) - 1)
    /\ IF Len(stack) = 1
       THEN pc' = "annotate" /\ all_api' = results /\ item_i' = 1
       ELSE UNCHANGED <<pc, all_api, item_i>>
    /\ UNCHANGED <<init_file, dynamic_all, optional, fault, symbols, stmt_i,
                   exported_symbols, visited, results, built_from>>
    /\ UNCHANGED graphVars

\* for item in all_api: one iteration
AnnotateStep ==
    /\ pc = "annotate"
    /\ item_i <= Len(all_api)
    /\ all_api' = [all_api EXCEPT ![item_i] = AnnotateItem(@, exported_symbols)]
    /\ item_i' = item_i + 1
    /\ UNCHANGED <<pc, init_file, dynamic_all, optional, fault, symbols, stmt_i,
                   exported_symbols, visited, stack, results, built_from>>
    /\ UNCHANGED graphVars

\* the loop is over: the two documents are written
AnnotateDone ==
    /\ pc = "annotate"
    /\ item_i > Len(all_api)
    /\ pc' = "done"
    /\ UNCHANGED <<init_file, dynamic_all, optional, fault, symbols, stmt_i,
                   exported_symbols, visited, stack, results, built_from, all_api, item_i>>
    /\ UNCHANGED graphVars

\* ================================================================ build_kg
\* --------------------------------------------------------- string values

CODE == <<"h", "t", "t", "p", ":", "/", "/", "e", "x", "a", "m", "p", "l", "e", ".", "o", "r", "g", "/", "c", "o", "d", "e", "#">>
l_Library == <<"L", "i", "b", "r", "a", "r", "y">>
l_Script == <<"S", "c", "r", "i", "p", "t">>
l_Module == <<"M", "o", "d", "u", "l", "e">>
l_Class == <<"C", "l", "a", "s", "s">>
l_API == <<"A", "P", "I">>
l_Description == <<"D", "e", "s", "c", "r", "i", "p", "t", "i", "o", "n">>
l_ReturnValue == <<"R", "e", "t", "u", "r", "n", "V", "a", "l", "u", "e">>
l_Parameter == <<"P", "a", "r", "a", "m", "e", "t", "e", "r">>
t_has_script == <<"h", "a", "s", " ", "s", "c", "r", "i", "p", "t">>
t_contain_module == <<"c", "o", "n", "t", "a", "i", "n", " ", "m", "o", "d", "u", "l", "e">>
t_include == <<"i", "n", "c", "l", "u", "d", "e">>
t_inherit == <<"i", "n", "h", "e", "r", "i", "t">>
t_has_method == <<"h", "a", "s", " ", "m", "e", "t", "h", "o", "d">>
t_has_return_value_type == <<"h", "a", "s", " ", "r", "e", "t", "u", "r", "n", " ", "v", "a", "l", "u", "e", " ", "t", "y", "p", "e">>
t_has_description == <<"h", "a", "s", " ", "d", "e", "s", "c", "r", "i", "p", "t", "i", "o", "n">>
t_has_return_value == <<"h", "a", "s", " ", "r", "e", "t", "u", "r", "n", " ", "v", "a", "l", "u", "e">>
t_has_parameter == <<"h", "a", "s", " ", "p", "a", "r", "a", "m", "e", "t", "e", "r">>
s_desc == <<"_", "d", "e", "s", "c">>
s_ret == <<"_", "r", "e", "t">>
s_optional_open == <<" ", "(", "o", "p", "t", "i", "o", "n", "a", "l", "=">>
s_True == <<"T", "r", "u", "e">>
s_False == <<"F", "a", "l", "s", "e">>
s_Flask == <<"F", "l", "a", "s", "k">>
s_App == <<"A", "p", "p">>
s_flask_app == <<"f", "l", "a", "s", "k", ".", "a", "p", "p">>
s_UnknownModule == <<"U", "n", "k", "n", "o", "w", "n", "M", "o", "d", "u", "l", "e">>
lib_name == <<"L", " ", "1">>

\* rdflib's RDF.type and RDFS.label, and the CODE namespace's terms.
rdf_type == <<"rdf:type">>
rdfs_label == <<"rdfs:label">>
CODE_Library == CODE \o l_Library
CODE_Script == CODE \o l_Script
CODE_Module == CODE \o l_Module
CODE_Class == CODE \o l_Class
CODE_API == CODE \o l_API
CODE_Description == CODE \o l_Description
CODE_ReturnValue == CODE \o l_ReturnValue
CODE_Parameter == CODE \o l_Parameter
CODE_hasScript == CODE \o <<"h", "a", "s", "S", "c", "r", "i", "p", "t">>
CODE_containModule == CODE \o <<"c", "o", "n", "t", "a", "i", "n", "M", "o", "d", "u", "l", "e">>
CODE_include == CODE \o <<"i", "n", "c", "l", "u", "d", "e">>
CODE_inherit == CODE \o <<"i", "n", "h", "e", "r", "i", "t">>
CODE_hasMethod == CODE \o <<"h", "a", "s", "M", "e", "t", "h", "o", "d">>
CODE_hasReturnValueType ==
    CODE \o <<"h", "a", "s", "R", "e", "t", "u", "r", "n", "V", "a", "l", "u", "e", "T", "y", "p", "e">>
CODE_hasDescription ==
    CODE \o <<"h", "a", "s", "D", "e", "s", "c", "r", "i", "p", "t", "i", "o", "n">>
CODE_hasReturnValue ==
    CODE \o <<"h", "a", "s", "R", "e", "t", "u", "r", "n", "V", "a", "l", "u", "e">>
CODE_hasParameter == CODE \o <<"h", "a", "s", "P", "a", "r", "a", "m", "e", "t", "e", "r">>

\* The length doc_str[:200] keeps.
DescPreviewLen == 200

\* ------------------------------------------------------------ rdflib.Graph
\* A graph is a set of triples; the object is a URIRef ("uri"), a plain
\* Literal ("plain") or a Literal typed XSD.string ("xsd:string").

T(s, p, o) == [s |-> s, p |-> p, o |-> o, lit |-> "uri"]
Lit(s, p, text) == [s |-> s, p |-> p, o |-> text, lit |-> "plain"]
LitStr(s, p, text) == [s |-> s, p |-> p, o |-> text, lit |-> "xsd:string"]

\* The ontology declarations build_knowledge_graph starts from.
Ontology ==
    {Lit(CODE_Library, rdfs_label, l_Library), Lit(CODE_Script, rdfs_label, l_Script),
     Lit(CODE_Module, rdfs_label, l_Module), Lit(CODE_Class, rdfs_label, l_Class),
     Lit(CODE_API, rdfs_label, l_API), Lit(CODE_Description, rdfs_label, l_Description),
     Lit(CODE_ReturnValue, rdfs_label, l_ReturnValue),
     Lit(CODE_Parameter, rdfs_label, l_Parameter),
     Lit(CODE_hasScript, rdfs_label, t_has_script),
     Lit(CODE_containModule, rdfs_label, t_contain_module),
     Lit(CODE_include, rdfs_label, t_include),
     Lit(CODE_inherit, rdfs_label, t_inherit),
     Lit(CODE_hasMethod, rdfs_label, t_has_method),
     Lit(CODE_hasReturnValueType, rdfs_label, t_has_return_value_type),
     Lit(CODE_hasDescription, rdfs_label, t_has_description),
     Lit(CODE_hasReturnValue, rdfs_label, t_has_return_value),
     Lit(CODE_hasParameter, rdfs_label, t_has_parameter)}

\* uri_encode(base_ns, identifier)
uri_encode(base_ns, identifier) ==
    base_ns \o ReplaceChar(ReplaceChar(ReplaceChar(ReplaceChar(identifier,
                  "\\", "_"), "/", "_"), " ", "_"), ".", "_")

\* The Library node: CODE + library_name.replace(" ", "_"), typed and labelled.
LibraryNode(library_name) == CODE \o ReplaceChar(library_name, " ", "_")

\* A new entity: its type and its label.
Entity(node, class, label) == {T(node, rdf_type, class), LitStr(node, rdfs_label, label)}

\* dict: a function from keys to nodes; d[k] = v
EmptyMap == [k \in {} |-> None]
Put(d, k, v) == (k :> v) @@ d
Has(d, k) == k \in DOMAIN d

\* s[:n]
Prefix(s, n) == SubSeq(s, 1, IF Len(s) < n THEN Len(s) ELSE n)

\* str(bool)
PyBool(b) == IF b THEN s_True ELSE s_False

IsApiType(item_type) == item_type \in {"function", "member_function"}

\* The fallback module of a class record without module attribution.
FallbackModule(class_str) ==
    IF class_str \in {s_Flask, s_App} THEN s_flask_app ELSE s_UnknownModule

\* Steps 1 and 2 of an iteration: the Script and the Module of the record.
\* st = [graph, script_map, module_map, class_map, api_map].
KGScript(st, item, library_node) ==
    IF Truthy(item.file) /\ ~Has(st.script_map, item.file)
    THEN LET script_node == uri_encode(CODE_Script, item.file)
         IN  [st EXCEPT !.graph = @ \cup Entity(script_node, CODE_Script, item.file)
                                    \cup {T(library_node, CODE_hasScript, script_node)},
                        !.script_map = Put(@, item.file, script_node)]
    ELSE st

\* A Module entity for module_str unless module_map has one; the script,
\* when there is one, contains a module made here.
KGModule(st, module_str, script_node) ==
    IF ~Has(st.module_map, module_str)
    THEN LET mod_node == uri_encode(CODE_Module, module_str)
         IN  [st EXCEPT !.graph = @ \cup Entity(mod_node, CODE_Module, module_str)
                                    \cup (IF script_node # None
                                          THEN {T(script_node, CODE_containModule, mod_node)}
                                          ELSE {}),
                        !.module_map = Put(@, module_str, mod_node)]
    ELSE st

\* Step 3 for a class record.
KGClass(st, item, mod_node2, script_node) ==
    LET module_str == IF ~Truthy(item.module) THEN FallbackModule(item.class)
                      ELSE item.module
        s == IF ~Truthy(item.module) THEN KGModule(st, module_str, script_node) ELSE st
        mod_node == IF ~Truthy(item.module) THEN s.module_map[module_str] ELSE mod_node2
        class_node == uri_encode(CODE_Class, item._id)
    IN  [s EXCEPT !.graph = @ \cup Entity(class_node, CODE_Class, item._id)
                              \cup (IF mod_node # None
                                    THEN {T(mod_node, CODE_include, class_node)} ELSE {}),
                  !.class_map = Put(@, item._id, class_node)]

\* The Class entity a member_function hangs from: class_map[class_str], made
\* when class_map has none.
KGParentClass(st, class_str) ==
    IF ~Has(st.class_map, class_str)
    THEN LET parent_class_node == uri_encode(CODE_Class, class_str)
         IN  [st EXCEPT !.graph = @ \cup Entity(parent_class_node, CODE_Class, class_str),
                        !.class_map = Put(@, class_str, parent_class_node)]
    ELSE st

\* Step 3 for a function or member_function record.
KGApi(st, item, mod_node) ==
    LET api_node == uri_encode(CODE_API, item._id)
        s == [st EXCEPT !.graph = @ \cup Entity(api_node, CODE_API, item._id),
                        !.api_map = Put(@, item._id, api_node)]
    IN  IF item.type = "member_function" /\ Truthy(item.class)
        THEN LET sp == KGParentClass(s, item.class)
             IN  [sp EXCEPT !.graph = @ \cup {T(sp.class_map[item.class], CODE_hasMethod,
                                               api_node)}]
        ELSE IF mod_node # None
        THEN [s EXCEPT !.graph = @ \cup {T(mod_node, CODE_hasMethod, api_node)}]
        ELSE s

\* Step 4: the Description of a record with a doc.
KGDescription(st, item) ==
    IF Truthy(item.doc)
    THEN LET desc_node == uri_encode(CODE_Description, item._id \o s_desc)
             owner == IF IsApiType(item.type) /\ Has(st.api_map, item._id)
                      THEN {st.api_map[item._id]}
                      ELSE IF item.type = "class" /\ Has(st.class_map, item._id)
                      THEN {st.class_map[item._id]}
                      ELSE {}
         IN  [st EXCEPT !.graph = @ \cup {T(desc_node, rdf_type, CODE_Description),
                                          LitStr(desc_node, rdfs_label,
                                                 Prefix(item.doc, DescPreviewLen))}
                                    \cup {T(n, CODE_hasDescription, desc_node) : n \in owner}]
    ELSE st

\* Step 5: the ReturnValue of a function record with a returns_doc.
KGReturnValue(st, item) ==
    IF Truthy(item.returns_doc) /\ IsApiType(item.type)
    THEN LET ret_node == uri_encode(CODE_ReturnValue, item._id \o s_ret)
         IN  [st EXCEPT !.graph = @ \cup Entity(ret_node, CODE_ReturnValue, item.returns_doc)
                                    \cup (IF Has(st.api_map, item._id)
                                          THEN {T(st.api_map[item._id], CODE_hasReturnValue,
                                                  ret_node)}
                                          ELSE {})]
    ELSE st

\* Step 6: one Parameter per parameter of a function record.  The records
\* carry no "name" inside a parameter's info, so real_param_name is the key.
KGParameters(st, item) ==
    IF item.parameters # <<>> /\ IsApiType(item.type) /\ Has(st.api_map, item._id)
    THEN [st EXCEPT !.graph = @ \cup UNION
            {LET p == item.parameters[i]
                 param_node == uri_encode(CODE_Parameter, item._id \o <<"_">> \o p.name)
             IN  Entity(param_node, CODE_Parameter,
                        p.name \o s_optional_open \o PyBool(p.is_optional) \o <<")">>)
                 \cup {T(st.api_map[item._id], CODE_hasParameter, param_node)}
             : i \in 1..Len(item.parameters)}]
    ELSE st

\* One iteration of build_knowledge_graph's loop over data_list.
KGItem(st, item, library_node) ==
    LET s1 == KGScript(st, item, library_node)
        script_node == IF Truthy(item.file) THEN s1.script_map[item.file] ELSE None
        s2 == IF Truthy(item.module) THEN KGModule(s1, item.module, script_node) ELSE s1
        mod_node == IF Truthy(item.module) THEN s2.module_map[item.module] ELSE None
        s3 == IF item.type = "class" THEN KGClass(s2, item, mod_node, script_node)
              ELSE IF IsApiType(item.type) THEN KGApi(s2, item, mod_node)
              ELSE s2
    IN  KGParameters(KGReturnValue(KGDescription(s3, item), item), item)

RECURSIVE KGLoop(_, _, _)
KGLoop(st, data_list, library_node) ==
    IF data_list = <<>> THEN st
    ELSE KGLoop(KGItem(st, data_list[1], library_node), Tail(data_list), library_node)

\* build_knowledge_graph(json_data, library_name): the graph and the maps.
BuildKnowledgeGraph(data_list, library_name) ==
    LET library_node == LibraryNode(library_name)
    IN  KGLoop([graph |-> Ontology \cup Entity(library_node, CODE_Library, library_name),
                script_map |-> EmptyMap, module_map |-> EmptyMap,
                class_map |-> EmptyMap, api_map |-> EmptyMap],
               data_list, library_node)

\* ------------------------------------------------------------ py2neo store
\* A store is [nodes, rels]: a node is [nid, label, name, content, optional]
\* (nid the store's own identity; content and optional are None on a node
\* that has no such property), a relationship [type, from, to] over nids.

EmptyStore == [nodes |-> {}, rels |-> {}]

Store(x) == [nodes |-> x.nodes, rels |-> x.rels]

\* neo_graph.create(node): a new node, whatever the store holds.
CreateNode(st, label, name, content, opt) ==
    LET nid == Cardinality(st.nodes) + 1
    IN  [nodes |-> st.nodes \cup {[nid |-> nid, label |-> label, name |-> name,
                                   content |-> content, optional |-> opt]},
         rels |-> st.rels, nid |-> nid]

\* The upsert written as neo_graph.create(node).
MergeNode_AlwaysCreate(st, label, name, content, opt) ==
    CreateNode(st, label, name, content, opt)

\* neo_graph.merge(node, label, "name"): the node with this label and name is
\* given the local node's properties, or is created when there is none;
\* [nodes, rels, nid], nid the node's identity.
MergeNode(st, label, name, content, opt) ==
    LET matches == {n \in st.nodes : n.label = label /\ n.name = name}
    IN  IF matches = {} THEN CreateNode(st, label, name, content, opt)
        ELSE [nodes |-> (st.nodes \ matches) \cup
                        {[n EXCEPT !.content = content, !.optional = opt] : n \in matches},
              rels |-> st.rels,
              nid |-> (CHOOSE n \in matches : TRUE).nid]

\* neo_graph.merge(Relationship(a, type, b))
MergeRel(st, a, type, b) ==
    [nodes |-> st.nodes, rels |-> st.rels \cup {[type |-> type, from |-> a, to |-> b]}]

\* The Library node of write_to_neo4j_py2neo: the first match by name, or a
\* node created; [nodes, rels, nid].
NeoLibrary(st, library_name) ==
    LET existing == {n \in st.nodes : n.label = "Library" /\ n.name = library_name}
    IN  IF existing # {}
        THEN [nodes |-> st.nodes, rels |-> st.rels, nid |-> (CHOOSE n \in existing : TRUE).nid]
        ELSE CreateNode(st, "Library", library_name, None, None)

\* The Module node of a record and its CONTAIN_MODULE relationship.
NeoModule(st, module_str, script_nid) ==
    LET m == MergeNode(st, "Module", module_str, None, None)
    IN  IF script_nid # 0
        THEN MergeRel(m, script_nid, "CONTAIN_MODULE", m.nid) @@ [nid |-> m.nid]
        ELSE m

\* The Description node of a record with a doc, under owner.
NeoDescription(st, item, owner) ==
    IF Truthy(item.doc)
    THEN LET d == MergeNode(st, "Description", item._id \o s_desc, item.doc, None)
         IN  MergeRel(d, owner, "HAS_DESCRIPTION", d.nid)
    ELSE Store(st)

\* The class branch of an iteration.
NeoClass(st, item, module_nid2, script_nid) ==
    LET m == IF ~Truthy(item.module)
             THEN NeoModule(st, FallbackModule(item.class), script_nid)
             ELSE Store(st) @@ [nid |-> module_nid2]
        c == MergeNode(m, "Class", item._id, None, None)
        s == IF m.nid # 0 THEN MergeRel(c, m.nid, "INCLUDE", c.nid) ELSE Store(c)
    IN  NeoDescription(s, item, c.nid)

\* The ReturnValue node of a function record with a returns_doc.
NeoReturnValue(st, item, api_nid) ==
    IF Truthy(item.returns_doc)
    THEN LET r == MergeNode(st, "ReturnValue", item._id \o s_ret, item.returns_doc, None)
         IN  MergeRel(r, api_nid, "HAS_RETURN_VALUE", r.nid)
    ELSE Store(st)

\* The Parameter nodes of a function record, in the mapping's order.
RECURSIVE NeoParameters(_, _, _, _)
NeoParameters(st, item, params, api_nid) ==
    IF params = <<>> THEN Store(st)
    ELSE LET q == MergeNode(st, "Parameter", item._id \o <<"_">> \o params[1].name,
                            None, PyBool(params[1].is_optional))
         IN  NeoParameters(MergeRel(q, api_nid, "HAS_PARAMETER", q.nid), item,
                           Tail(params), api_nid)

\* The function / member_function branch of an iteration.
NeoApi(st, item, module_nid) ==
    LET a == MergeNode(st, "API", item._id, None, None)
        s == IF item.type = "member_function" /\ Truthy(item.class)
             THEN LET k == MergeNode(a, "Class", item.class, None, None)
                  IN  MergeRel(k, k.nid, "HAS_METHOD", a.nid)
             ELSE IF module_nid # 0
             THEN MergeRel(a, module_nid, "HAS_METHOD", a.nid)
             ELSE Store(a)
    IN  NeoParameters(NeoReturnValue(NeoDescription(s, item, a.nid), item, a.nid),
                      item, item.parameters, a.nid)

\* One iteration of write_to_neo4j_py2neo's loop; a nid of 0 is Python's None.
NeoItem(st, item, lib_nid) ==
    LET s1 == IF Truthy(item.file)
              THEN LET n == MergeNode(st, "Script", item.file, None, None)
                   IN  MergeRel(n, lib_nid, "HAS_SCRIPT", n.nid) @@ [nid |-> n.nid]
              ELSE Store(st) @@ [nid |-> 0]
        s2 == IF Truthy(item.module) THEN NeoModule(s1, item.module, s1.nid)
              ELSE Store(s1) @@ [nid |-> 0]
    IN  IF item.type = "class" THEN NeoClass(s2, item, s2.nid, s1.nid)
        ELSE IF IsApiType(item.type) THEN NeoApi(s2, item, s2.nid)
        ELSE Store(s2)

\* ------------------------------------------------------------ build_kg.main

vars == <<extractVars, graphVars>>

MaxRuns == 2

NoFile == [exists |-> FALSE, complete |-> FALSE, run |-> 0, content |-> {}]

\* neo4j_url and neo4j_user and neo4j_pass
NeoRequested(args) == {"url", "user", "pass"} \subseteq args

\* main after step 2: the remote write, if asked for.
AfterSerialize(args) == IF NeoRequested(args) THEN "connect" ELSE "done"

\* main with step 3 placed before step 2, and step 2 then skipped.
AfterBuild_RemoteFirst(ttl, args) ==
    IF NeoRequested(args) THEN "connect" ELSE IF ttl THEN "serialize" ELSE "done"

\* main after step 1: the local serialization, if asked for, comes first.
AfterBuild(ttl, args) == IF ttl THEN "serialize" ELSE AfterSerialize(args)

\* kg, node_dicts = build_knowledge_graph(json_data, library_name=library_name)
BuildGraph ==
    /\ gpc = "start"
    /\ kg' = BuildKnowledgeGraph(json_data, lib_name).graph
    /\ gpc' = AfterBuild(ttl_out, neo4j_args)
    /\ UNCHANGED <<json_data, ttl_out, neo4j_args, ttl_file, store, library_nid, data_i,
                   run, first_store>>
    /\ UNCHANGED extractVars

\* kg.serialize(destination=ttl_out, format="turtle")
SerializeTtl ==
    /\ gpc = "serialize"
    /\ ttl_file' = [exists |-> TRUE, complete |-> TRUE, run |-> run, content |-> kg]
    /\ gpc' = AfterSerialize(neo4j_args)
    /\ UNCHANGED <<json_data, ttl_out, neo4j_args, kg, store, library_nid, data_i, run,
                   first_store>>
    /\ UNCHANGED extractVars

\* os.makedirs or kg.serialize raises: main ends; the file is as it was, or
\* was opened and is left incomplete.
SerializeFails ==
    /\ gpc = "serialize"
    /\ \E opened \in BOOLEAN :
          ttl_file' = IF opened
                      THEN [exists |-> TRUE, complete |-> FALSE, run |-> run, content |-> {}]
                      ELSE ttl_file
    /\ gpc' = "serialize_failed"
    /\ UNCHANGED <<json_data, ttl_out, neo4j_args, kg, store, library_nid, data_i, run,
                   first_store>>
    /\ UNCHANGED extractVars

\* write_to_neo4j_py2neo up to its loop: connect, find or create the Library.
NeoConnect ==
    /\ gpc = "connect"
    /\ LET l == NeoLibrary(store, lib_name)
       IN  store' = Store(l) /\ library_nid' = l.nid
    /\ data_i' = 1
    /\ gpc' = "write"
    /\ UNCHANGED <<json_data, ttl_out, neo4j_args, kg, ttl_file, run, first_store>>
    /\ UNCHANGED extractVars

\* for item in data_list: one iteration
NeoWriteItem ==
    /\ gpc = "write"
    /\ data_i <= Len(json_data)
    /\ store' = NeoItem(store, json_data[data_i], library_nid)
    /\ data_i' = data_i + 1
    /\ UNCHANGED <<gpc, json_data, ttl_out, neo4j_args, kg, ttl_file, library_nid, run,
                   first_store>>
    /\ UNCHANGED extractVars

\* the loop is over: write_to_neo4j_py2neo and main return
NeoWriteDone ==
    /\ gpc = "write"
    /\ data_i > Len(json_data)
    /\ gpc' = "done"
    /\ first_store' = IF run = 1 THEN store ELSE first_store
    /\ UNCHANGED <<json_data, ttl_out, neo4j_args, kg, ttl_file, store, library_nid,
                   data_i, run>>
    /\ UNCHANGED extractVars

\* The connection or a write raises: nothing catches it, main ends.
NeoFails ==
    /\ gpc \in {"connect", "write"}
    /\ gpc' = "neo_failed"
    /\ UNCHANGED <<json_data, ttl_out, neo4j_args, kg, ttl_file, store, library_nid,
                   data_i, run, first_store>>
    /\ UNCHANGED extractVars

\* main is run again on the same document with the same arguments.
Rerun ==
    /\ gpc = "done"
    /\ run < MaxRuns
    /\ run' = run + 1
    /\ gpc' = "start"
    /\ kg' = {}
    /\ library_nid' = 0
    /\ data_i' = 1
    /\ UNCHANGED <<json_data, ttl_out, neo4j_args, ttl_file, store, first_store>>
    /\ UNCHANGED extractVars

\* ------------------------------------------------------------ the inputs

File(valid, body) == [valid |-> valid, body |-> body]

\* Entry-point files of the extraction runs.
ExtractFiles ==
    {File(TRUE, <<st_from_alias, st_all_tuple>>),
     File(TRUE, <<st_from_plain>>),
     File(FALSE, <<>>)}

ExtractDynAll ==
    {NoAll, [kind |-> "list", elts |-> <<n_B, n_s>>], [kind |-> "str", elts |-> <<n_g>>]}

\* Entry-point files of the resolver runs: every body of at most MaxStmts
\* statements, and a file that does not parse.
StmtUniverse ==
    {st_import, st_from_alias, st_from_plain, st_from_dot, st_all_list, st_all_tuple,
     st_all_computed, st_other_assign, st_if}

MaxStmts == 2

ResolveFiles ==
    {File(TRUE, b) : b \in UNION {[1..n -> StmtUniverse] : n \in 0..MaxStmts}}
        \cup {File(FALSE, <<>>)}

\* Records of the input document: records as the walker builds them, and a
\* member_function record whose class field is the class's identifier.
R_mod == BuildApiItem(n_p, "M_p", NoObj, NoFault).item
R_cls == BuildApiItem(JoinId(n_p, n_A), "K_A", NoObj, NoFault).item
R_meth == BuildApiItem(JoinId(JoinId(n_p, n_A), n_m), "F_m", "K_A", NoFault).item
R_fun == BuildApiItem(JoinId(n_p, n_f), "F_f", NoObj, NoFault).item
R_compiled == BuildApiItem(JoinId(n_p, n_C), "K_C", NoObj, NoFault).item
R_meth_by_id == [R_meth EXCEPT !.class = JoinId(n_p, n_A)]
R_plain == [R_fun EXCEPT !.doc = <<>>, !.returns_doc = None, !.file = None,
                         !._id = JoinId(n_p, n_g), !.parameters = <<>>]

\* Class records without module attribution: a class named Flask with the
\* class field the walker gives a class record (None), the same with the
\* class field holding the name, and a class of another name.
R_cls_flask == [R_cls EXCEPT !._id = JoinId(n_p, s_Flask), !.module = None, !.doc = <<>>]
R_cls_flask_named == [R_cls_flask EXCEPT !.class = s_Flask]
R_cls_other == [R_cls EXCEPT !.module = None, !.doc = <<>>]

\* A module-level function p.A_m, beside the method p.A.m.
R_fun_A_m == [R_plain EXCEPT !._id = JoinId(n_p, n_A_m)]

WalkerRecords == {R_mod, R_cls, R_meth, R_fun, R_compiled}
RecordUniverse ==
    WalkerRecords \cup {R_meth_by_id, R_plain, R_cls_flask, R_cls_flask_named, R_cls_other,
                        R_fun_A_m}

MaxRecords == 2

Documents == UNION {[1..n -> RecordUniverse] : n \in 0..MaxRecords}

NeoArgSets == {{}, {"url", "user"}, {"url", "user", "pass"}}

ExtractIdle ==
    /\ pc = "parse"
    /\ symbols = {}
    /\ stmt_i = 1
    /\ exported_symbols = {}
    /\ visited = {}
    /\ stack = <<>>
    /\ results = <<>>
    /\ built_from = <<>>
    /\ all_api = <<>>
    /\ item_i = 1

GraphIdle ==
    /\ gpc = "start"
    /\ kg = {}
    /\ ttl_file = NoFile
    /\ store = EmptyStore
    /\ library_nid = 0
    /\ data_i = 1
    /\ run = 1
    /\ first_store = EmptyStore

NoExtraction ==
    /\ init_file = File(TRUE, <<>>)
    /\ dynamic_all = NoAll
    /\ optional = {}
    /\ fault = NoFault
    /\ ExtractIdle

NoGraph ==
    /\ json_data = <<>>
    /\ ttl_out = FALSE
    /\ neo4j_args = {}
    /\ GraphIdle

\* ------------------------------------------------------- specifications

\* extract_package_api.main on a package.
Init ==
    /\ init_file \in ExtractFiles
    /\ dynamic_all \in ExtractDynAll
    /\ optional \in {S \in SUBSET OptionalBinds : Cardinality(S) <= MaxOptional}
    /\ fault \in Faults
    /\ ExtractIdle
    /\ NoGraph

Next ==
    \/ OpenInit
    \/ ParseStmt
    \/ ParseReturn
    \/ ImportPackage
    \/ TraverseRoot
    \/ VisitSubmodule
    \/ VisitClass
    \/ VisitFunction
    \/ SkipMember
    \/ ReturnFromModule
    \/ AnnotateStep
    \/ AnnotateDone

Spec == Init /\ [][Next]_vars

\* parse_init_file on an entry-point file.
ResolveInit ==
    /\ init_file \in ResolveFiles
    /\ dynamic_all = NoAll
    /\ optional = {}
    /\ fault = NoFault
    /\ ExtractIdle
    /\ NoGraph

ResolveNext ==
    \/ OpenInit
    \/ ParseStmt
    \/ ParseReturn

SpecResolve == ResolveInit /\ [][ResolveNext]_vars

\* traverse_module on the imported package: main from line 293, for a package
\* whose entry-point file and __all__ export nothing.  Every step of the
\* traversal is a step of the one running interpreter, so a step that can be
\* taken is taken.
WalkInit ==
    /\ init_file = File(TRUE, <<>>)
    /\ dynamic_all = NoAll
    /\ optional \in {S \in SUBSET OptionalBinds : Cardinality(S) <= MaxOptional}
    /\ fault \in Faults
    /\ pc = "traverse"
    /\ symbols = {}
    /\ stmt_i = 1
    /\ exported_symbols = {}
    /\ visited = {}
    /\ stack = <<>>
    /\ results = <<>>
    /\ built_from = <<>>
    /\ all_api = <<>>
    /\ item_i = 1
    /\ NoGraph

WalkNext ==
    \/ TraverseRoot
    \/ VisitSubmodule
    \/ VisitClass
    \/ VisitFunction
    \/ SkipMember
    \/ ReturnFromModule

SpecWalk == WalkInit /\ [][WalkNext]_vars /\ WF_vars(WalkNext)

\* build_kg.main on a document, run up to MaxRuns times against one store.
GraphInit ==
    /\ json_data \in Documents
    /\ ttl_out \in BOOLEAN
    /\ neo4j_args \in NeoArgSets
    /\ GraphIdle
    /\ NoExtraction

GraphNext ==
    \/ BuildGraph
    \/ SerializeTtl
    \/ SerializeFails
    \/ NeoConnect
    \/ NeoWriteItem
    \/ NeoWriteDone
    \/ NeoFails
    \/ Rerun

SpecGraph == GraphInit /\ [][GraphNext]_vars

\* ================================================================ claims

\* The record of the class being visited when record i was made: the last
\* class record before it.
VisitedClassId(i) ==
    LET js == {j \in 1..(i - 1) : results[j].type = "class"}
    IN  IF js = {} THEN None ELSE results[CHOOSE j \in js : \A k \in js : k <= j]._id

\* C1: every member_function record's owning class field is the dotted
\* identifier of the class that was being visited when it was made.
C1_OwningClassIsClassId ==
    \A i \in 1..Len(results) :
        results[i].type = "member_function" => results[i].class = VisitedClassId(i)

\* The export set: the statically parsed names and the elements of a live
\* __all__ that is a list, tuple or set.
ExportSet ==
    (IF init_file.valid THEN ParseInitFile(init_file.body) ELSE {})
        \cup (IF dynamic_all.kind \in {"list", "tuple", "set"} THEN Elems(dynamic_all.elts)
              ELSE {})

\* C2: after the annotation pass a record is marked from_init exactly when
\* the last dotted segment of its identifier is in the export set.
C2_MarkedIffLastSegmentExported ==
    pc = "done" =>
        \A i \in 1..Len(all_api) :
            all_api[i].from_init <=> (LastSegment(all_api[i]._id) \in ExportSet)

\* C2's case: a finished run in which a method is marked because its name is
\* an exported top-level name, and another record is not marked.
C2_Witness ==
    /\ pc = "done"
    /\ \E i \in 1..Len(all_api) :
          /\ all_api[i].type = "member_function"
          /\ all_api[i].from_init
          /\ LastSegment(all_api[i]._id) = n_m
    /\ \E i \in 1..Len(all_api) : ~all_api[i].from_init

\* The name an import binds: the alias when there is one.
BoundName(alias) == IF alias.asname # None THEN alias.asname ELSE alias.name

\* C3: parse_init_file's result holds, for every top-level from-import, the
\* root segment of the source module and the bound name of every symbol.
C3_FromImportBoundNames ==
    pc = "import" =>
        \A i \in 1..Len(init_file.body) :
            LET node == init_file.body[i]
            IN  node.node = "ImportFrom" =>
                  /\ Truthy(node.module) => Split(node.module, s_dot)[1] \in exported_symbols
                  /\ \A k \in 1..Len(node.names) :
                        BoundName(node.names[k]) \in exported_symbols

\* The Class entities of a graph, and the hasMethod edges into a node.
ClassEntities(g) == {t.s : t \in {u \in g : u.p = rdf_type /\ u.o = CODE_Class}}
MethodOwners(g, api_node) == {t.s : t \in {u \in g : u.p = CODE_hasMethod /\ u.o = api_node}}

\* Record j of the document is a method of the class of record i, both as
\* the walker emits them.
WalkerClassAndMethod(i, j) ==
    /\ i < j
    /\ json_data[i] \in WalkerRecords
    /\ json_data[j] \in WalkerRecords
    /\ json_data[i].type = "class"
    /\ json_data[j].type = "member_function"
    /\ json_data[j]._id = JoinId(json_data[i]._id, LastSegment(json_data[j]._id))

\* C4: for a class record and its method records as the walker emits them,
\* the graph has one Class entity, keyed by the class's identifier, and every
\* hasMethod edge of those methods starts at it.
C4_MethodsHangFromTheClassEntity ==
    gpc \notin {"start"} =>
        \A i, j \in 1..Len(json_data) :
            WalkerClassAndMethod(i, j) =>
                LET class_node == uri_encode(CODE_Class, json_data[i]._id)
                    owners == MethodOwners(kg, uri_encode(CODE_API, json_data[j]._id))
                IN  /\ class_node \in ClassEntities(kg)
                    /\ owners = {class_node}

\* A compiled function or class: an object with no retrievable source.
CompiledApi(o) == ~ObjTable[o].source /\ ObjTable[o].cat \in {"builtin", "class"}
KindOf(o) == IF ObjTable[o].cat = "class" THEN "class" ELSE "function"

\* C5: every compiled function or class that is a member of a traversed
\* module has a record in the output, with no source text and its kind.
C5_CompiledMembersEmitted ==
    pc \in {"annotate", "done"} =>
        \A b \in CoreBinds \cup optional :
            (IsModule(b.mod) /\ ObjTable[b.mod].name \in visited /\ CompiledApi(b.obj)) =>
                \E i \in 1..Len(all_api) :
                    /\ all_api[i]._id = JoinId(ObjTable[b.mod].name, b.name)
                    /\ all_api[i].source_code = None
                    /\ all_api[i].type = KindOf(b.obj)

\* C6: a failing doc, signature or source retrieval never leaves the
\* traversal, and the record made of that object has the field's default.
C6_IntrospectionFailuresStayLocal ==
    /\ pc # "raised"
    /\ \A i \in 1..Len(results) :
          built_from[i] = fault.obj =>
              /\ fault.call = "sig" => results[i].signature = s_empty_sig
              /\ fault.call = "src" => results[i].source_code = None
              /\ fault.call = "doc" => results[i].doc = <<>>

\* No two nodes of the store share a label and a name.
NoDuplicateNodes(st) ==
    \A m, n \in st.nodes : (m.label = n.label /\ m.name = n.name) => m = n

\* C7: a second (and any later) completed write of the same records leaves
\* the store as the first left it, and the store never holds two nodes with
\* one label and name.
C7_SecondWriteChangesNothing ==
    /\ NoDuplicateNodes(store)
    /\ (gpc = "done" /\ run >= 2 /\ NeoRequested(neo4j_args)) => store = first_store

\* C7's case: the second write has completed on a store that holds nodes of
\* several labels and relationships.
C7_Witness ==
    /\ gpc = "done"
    /\ run = 2
    /\ NeoRequested(neo4j_args)
    /\ Cardinality(store.nodes) >= 5
    /\ store.rels # {}

\* The CODE class of a store label and the CODE property of a relationship type.
LabelClass(label) ==
    CASE label = "Library" -> CODE_Library
      [] label = "Script" -> CODE_Script
      [] label = "Module" -> CODE_Module
      [] label = "Class" -> CODE_Class
      [] label = "API" -> CODE_API
      [] label = "Description" -> CODE_Description
      [] label = "ReturnValue" -> CODE_ReturnValue
      [] label = "Parameter" -> CODE_Parameter
RelProperty(type) ==
    CASE type = "HAS_SCRIPT" -> CODE_hasScript
      [] type = "CONTAIN_MODULE" -> CODE_containModule
      [] type = "INCLUDE" -> CODE_include
      [] type = "HAS_METHOD" -> CODE_hasMethod
      [] type = "HAS_DESCRIPTION" -> CODE_hasDescription
      [] type = "HAS_RETURN_VALUE" -> CODE_hasReturnValue
      [] type = "HAS_PARAMETER" -> CODE_hasParameter

\* The document's entity of a store node: same type, same natural key.
NodeEntity(n) ==
    IF n.label = "Library" THEN LibraryNode(n.name)
    ELSE uri_encode(LabelClass(n.label), n.name)
NodeOf(st, nid) == CHOOSE n \in st.nodes : n.nid = nid

DocEntities(g) == {[type |-> t.o, key |-> t.s] : t \in {u \in g : u.p = rdf_type}}
StoreEntities(st) == {[type |-> LabelClass(n.label), key |-> NodeEntity(n)] : n \in st.nodes}
DocRels(g) ==
    {[type |-> t.p, from |-> t.s, to |-> t.o] : t \in {u \in g : u.lit = "uri" /\ u.p # rdf_type}}
StoreRels(st) ==
    {[type |-> RelProperty(r.type), from |-> NodeEntity(NodeOf(st, r.from)),
      to |-> NodeEntity(NodeOf(st, r.to))] : r \in st.rels}

\* C8: the store written from a document and the graph built from it hold
\* the same entities and the same relationships.
C8_TargetsAgree ==
    (gpc = "done" /\ run = 1 /\ NeoRequested(neo4j_args)) =>
        /\ DocEntities(kg) = StoreEntities(store)
        /\ DocRels(kg) = StoreRels(store)

\* C9: every record with a doc has its Description entity, with a
\* hasDescription edge into it, and no Description entity lacks such an edge.
C9_EveryDescriptionAttached ==
    gpc \notin {"start"} =>
        /\ \A i \in 1..Len(json_data) :
              Truthy(json_data[i].doc) =>
                  LET desc_node == uri_encode(CODE_Description, json_data[i]._id \o s_desc)
                  IN  /\ T(desc_node, rdf_type, CODE_Description) \in kg
                      /\ \E t \in kg : t.p = CODE_hasDescription /\ t.o = desc_node
        /\ \A d \in kg :
              (d.p = rdf_type /\ d.o = CODE_Description) =>
                  \E t \in kg : t.p = CODE_hasDescription /\ t.o = d.s

\* The local output of this run is complete.
LocalOutputDone ==
    ttl_file = [exists |-> TRUE, complete |-> TRUE, run |-> run, content |-> kg]

\* C10: with a serialization path and all three connection parameters, the
\* local output is complete before the remote write starts and stays in place
\* when the write fails; a failing serialization leaves the store as it was.
C10_LocalOutputBeforeRemoteWrite ==
    /\ (ttl_out /\ gpc \in {"connect", "write", "neo_failed"}) => LocalOutputDone
    /\ (ttl_out /\ NeoRequested(neo4j_args) /\ gpc = "done") => LocalOutputDone
    /\ gpc \in {"serialize", "serialize_failed"} => store = first_store

\* C10's case: the remote write failed after writing part of the records,
\* and the local output of the run is complete.
C10_Witness ==
    /\ gpc = "neo_failed"
    /\ ttl_out
    /\ NeoRequested(neo4j_args)
    /\ LocalOutputDone
    /\ store.nodes # {}
    /\ data_i <= Len(json_data)

\* The module a class record without module attribution belongs to, by the
\* class's name.
ExpectedFallback(item) ==
    IF LastSegment(item._id) \in {s_Flask, s_App} THEN s_flask_app ELSE s_UnknownModule

StoreIncludes(st, module_name, class_name) ==
    \E r \in st.rels :
        /\ r.type = "INCLUDE"
        /\ NodeOf(st, r.from).label = "Module"
        /\ NodeOf(st, r.from).name = module_name
        /\ NodeOf(st, r.to).label = "Class"
        /\ NodeOf(st, r.to).name = class_name

\* C11: in the document and in the store, a class record without module
\* attribution is included by module flask.app when the class is named Flask
\* or App, and by UnknownModule otherwise.
C11_FallbackModuleByClassName ==
    \A i \in 1..Len(json_data) :
        (json_data[i].type = "class" /\ ~Truthy(json_data[i].module)) =>
            /\ gpc # "start" =>
                  T(uri_encode(CODE_Module, ExpectedFallback(json_data[i])), CODE_include,
                    uri_encode(CODE_Class, json_data[i]._id)) \in kg
            /\ (gpc = "done" /\ NeoRequested(neo4j_args)) =>
                  StoreIncludes(store, ExpectedFallback(json_data[i]), json_data[i]._id)

\* The first dotted segment of a module name.
FirstSegment(name) == Split(name, s_dot)[1]

RootSegment == FirstSegment(ObjTable[RootModule].name)

\* C12: every module the traversal walks, and every record it makes, is
\* under a name whose first dotted segment is the root module's first segment.
C12_WalksOnlyTheRootPackage ==
    /\ \A v \in visited : FirstSegment(v) = RootSegment
    /\ \A i \in 1..Len(results) : FirstSegment(results[i]._id) = RootSegment

\* The entity keys of the document, by category.
Records == {json_data[i] : i \in 1..Len(json_data)}
ScriptKeys == {r.file : r \in {x \in Records : Truthy(x.file)}}
ModuleKeys ==
    {r.module : r \in {x \in Records : Truthy(x.module)}}
        \cup {FallbackModule(r.class) :
                r \in {x \in Records : x.type = "class" /\ ~Truthy(x.module)}}
ClassKeys ==
    {r._id : r \in {x \in Records : x.type = "class"}}
        \cup {r.class : r \in {x \in Records : x.type = "member_function" /\ Truthy(x.class)}}
ApiKeys == {r._id : r \in {x \in Records : IsApiType(x.type)}}
DescriptionKeys == {r._id \o s_desc : r \in {x \in Records : Truthy(x.doc)}}
ReturnValueKeys ==
    {r._id \o s_ret : r \in {x \in Records : Truthy(x.returns_doc) /\ IsApiType(x.type)}}
ParameterKeys ==
    UNION {{r._id \o <<"_">> \o r.parameters[k].name : k \in 1..Len(r.parameters)} :
             r \in {x \in Records : IsApiType(x.type)}}

\* The nodes of the graph that are entities of a class.
NodesOf(g, class) == {t.s : t \in {u \in g : u.p = rdf_type /\ u.o = class}}

\* Distinct keys of a category have distinct nodes, one node per key.
OneNodePerKey(keys, class) ==
    /\ \A k1, k2 \in keys : k1 # k2 => uri_encode(class, k1) # uri_encode(class, k2)
    /\ Cardinality(NodesOf(kg, class)) = Cardinality(keys)

\* C13: in the graph of one pass, two distinct keys of a category (script
\* paths, module names, class or API identifiers, derived Description,
\* ReturnValue and Parameter keys) never share a node.
C13_DistinctKeysDistinctNodes ==
    gpc # "start" =>
        /\ OneNodePerKey(ScriptKeys, CODE_Script)
        /\ OneNodePerKey(ModuleKeys, CODE_Module)
        /\ OneNodePerKey(ClassKeys, CODE_Class)
        /\ OneNodePerKey(ApiKeys, CODE_API)
        /\ OneNodePerKey(DescriptionKeys, CODE_Description)
        /\ OneNodePerKey(ReturnValueKeys, CODE_ReturnValue)
        /\ OneNodePerKey(ParameterKeys, CODE_Parameter)

\* No module has two module records.
ModuleRecordsUnique ==
    \A i, j \in 1..Len(results) :
        (results[i].type = "module" /\ results[j].type = "module"
            /\ results[i]._id = results[j]._id) => i = j

\* C14: on every module graph, cyclic ones included, each module name gets
\* at most one module record, the traversal always ends, and it ends by
\* returning unless a doc retrieval raised.
C14_TraversalTerminates ==
    /\ []ModuleRecordsUnique
    /\ (pc = "traverse") ~> (pc \in {"annotate", "raised"})
    /\ (pc = "traverse" /\ fault.call # "doc") ~> (pc = "annotate")

\* C14's case: the traversal has returned from a package that refers to
\* itself and whose submodule refers back to it.
C14_Witness ==
    /\ pc = "annotate"
    /\ Bind("M_ps", n_up, "M_p") \in optional
    /\ Bind("M_p", n_me, "M_p") \in optional
    /\ n_ps \in visited
    /\ Len(all_api) >= 5

\* Record b is record a, but for from_init, which may have gone from false
\* to true.
SameButMarked(a, b) ==
    /\ [b EXCEPT !.from_init = a.from_init] = a
    /\ a.from_init => b.from_init

\* One step of the run keeps every record made so far: the traversal only
\* appends to its results, its outermost return hands them to main as they
\* are, and from then on the list keeps its length and order and a record
\* changes in from_init only, from false to true.
RecordsKept ==
    /\ Len(results') >= Len(results)
    /\ \A i \in 1..Len(results) : results'[i] = results[i]
    /\ (pc \notin {"annotate", "done"} /\ pc' = "annotate") => all_api' = results
    /\ pc \in {"annotate", "done"} =>
          /\ Len(all_api') = Len(all_api)
          /\ \A i \in 1..Len(all_api) : SameButMarked(all_api[i], all_api'[i])

\* C15: over the traversal and the annotation pass, a record once made
\* changes in from_init only, and only from false to true; the annotation
\* pass adds, removes and reorders no records.
C15_OnlyFromInitChanges == [][RecordsKept]_vars

\* C15's case: the run is over, and a record differs from the record
\* build_api_item made in from_init alone, while another is as it was made.
C15_Witness ==
    /\ pc = "done"
    /\ Len(all_api) = Len(results)
    /\ \E i \in 1..Len(all_api) :
          /\ all_api[i] # results[i]
          /\ [all_api[i] EXCEPT !.from_init = FALSE] = results[i]
    /\ \E i \in 1..Len(all_api) : all_api[i] = results[i]

====
